---- MODULE Spec2Model ----
(***************************************************************************)
(* The submission controller of frontend/src/App.js: the React component   *)
(* App with its four pieces of state, its event handlers, the pending      *)
(* axios.post requests and the synthetic-anchor download.                  *)
(*                                                                         *)
(* One action is one run of a handler by the event loop, together with     *)
(* the re-render React commits before the next event is delivered.  The    *)
(* async handler handleSubmit is two runs: the part up to the await, and   *)
(* the continuation that runs when the awaited request settles.            *)
(***************************************************************************)
EXTENDS Naturals, Sequences, FiniteSets

\* ---------------------------------------------------------------- values

\* useState(null): no file chosen yet.
Null == "null"

\* e.target.files[0] of an empty FileList (the file dialog was cancelled).
Undefined == "undefined"

\* The File objects the user can pick.
Files == {"a.wsdl", "b.wsdl"}

\* What the textarea can hold.
Texts == {"", "describe the test"}

\* response.data of a fulfilled axios.post, as handleSubmit receives it.
Bodies == {"<xml>ok</xml>", "<soapui-project/>", ""}

\* Why axios.post rejects: no response, a status outside 2xx, a timeout.
Causes == {"Network Error", "status 400", "status 500", "timeout"}

\* URLs URL.createObjectURL can hand out.
Urls == {"blob:1", "blob:2"}

\* The most handleSubmit continuations kept suspended at once.
MaxInFlight == 2

\* The tally counts up to this and then stays.
MaxCount == 3

InitialXml == "<!-- Generated XML will appear here -->"

ErrorXml == "<!-- Error generating XML. Please check the console. -->"

MissingFileAlert == "Please upload a WSDL file."

DownloadName == "soapui-project.xml"

XmlType == "application/xml"

\* No file was saved by a handler run.
NoFile == [name |-> "", content |-> "", type |-> "", href |-> "", outcome |-> ""]

\* What a.click() on the download anchor leads to: the browser saves the file,
\* or blocks the download; click() returns normally in both cases.
ClickOutcomes == {"saved", "blocked"}

\* ----------------------------------------------------------------- state

VARIABLES
    textInput,     \* useState('')
    wsdlFile,      \* useState(null)
    generatedXml,  \* useState('<!-- Generated XML will appear here -->')
    isLoading,     \* useState(false)
    disabled,      \* the submit button's disabled attribute, as last rendered
    inflight,      \* the FormData of each axios.post not yet settled, oldest first
    objectUrls,    \* object URLs created and not revoked
    tally,         \* how many POSTs were issued, and how many submits had a file
    lastRun        \* what the last handler run did to the outside world

vars == <<textInput, wsdlFile, generatedXml, isLoading, disabled, inflight,
          objectUrls, tally, lastRun>>

\* One handler run as seen from outside: the handler, the value the event
\* carried, the alert shown, whether a POST was issued, what console.error
\* logged, the file the anchor click saved.
Effects(op, input, alert, posted, log, saved) ==
    [op |-> op, input |-> input, alert |-> alert, posted |-> posted, log |-> log,
     saved |-> saved]

\* One more on a counter of the tally.
Count(n) == IF n < MaxCount THEN n + 1 ELSE n

\* !wsdlFile is false exactly for a File object.
Truthy(v) == v \notin {Null, Undefined}

\* disabled={isLoading} on the submit button.
ButtonNeverDisabled(loading) == FALSE

ButtonDisabled(loading) == loading

RemoveAt(s, i) == [j \in 1..(Len(s) - 1) |-> IF j < i THEN s[j] ELSE s[j + 1]]

Init ==
    /\ textInput = ""
    /\ wsdlFile = Null
    /\ generatedXml = InitialXml
    /\ isLoading = FALSE
    /\ disabled = ButtonDisabled(FALSE)
    /\ inflight = <<>>
    /\ objectUrls = {}
    /\ tally = [posts |-> 0, submits |-> 0]
    /\ lastRun = Effects("none", "", "", FALSE, "", NoFile)

\* -------------------------------------------------------------- handlers

\* textarea onChange={(e) => setTextInput(e.target.value)}
setTextInput(value) ==
    /\ textInput' = value
    /\ lastRun' = Effects("setText", value, "", FALSE, "", NoFile)
    /\ UNCHANGED <<wsdlFile, generatedXml, isLoading, disabled, inflight, objectUrls, tally>>

\* handleFileChange, had it also cleared the output pane for the new file.
handleFileChangeResets(file) ==
    /\ wsdlFile' = file
    /\ generatedXml' = InitialXml
    /\ lastRun' = Effects("setFile", file, "", FALSE, "", NoFile)
    /\ UNCHANGED <<textInput, isLoading, disabled, inflight, objectUrls, tally>>

\* handleFileChange: setWsdlFile(e.target.files[0])
handleFileChange(file) ==
    /\ wsdlFile' = file
    /\ lastRun' = Effects("setFile", file, "", FALSE, "", NoFile)
    /\ UNCHANGED <<textInput, generatedXml, isLoading, disabled, inflight, objectUrls, tally>>

\* handleSubmit without the !wsdlFile guard.
handleSubmitNoGuard ==
    /\ Len(inflight) < MaxInFlight
    /\ isLoading' = TRUE
    /\ inflight' = Append(inflight, [wsdl_file |-> wsdlFile, user_input |-> textInput])
    /\ disabled' = ButtonDisabled(isLoading')
    /\ tally' = [posts |-> Count(tally.posts),
                 submits |-> IF Truthy(wsdlFile) THEN Count(tally.submits)
                             ELSE tally.submits]
    /\ lastRun' = Effects("submit", "", "", TRUE, "", NoFile)
    /\ UNCHANGED <<textInput, wsdlFile, generatedXml, objectUrls>>

\* handleSubmit without setIsLoading(true).
handleSubmitNoPending ==
    IF ~Truthy(wsdlFile)
    THEN /\ lastRun' = Effects("submit", "", MissingFileAlert, FALSE, "", NoFile)
         /\ UNCHANGED <<textInput, wsdlFile, generatedXml, isLoading, disabled,
                        inflight, objectUrls, tally>>
    ELSE /\ Len(inflight) < MaxInFlight
         /\ inflight' = Append(inflight, [wsdl_file |-> wsdlFile, user_input |-> textInput])
         /\ tally' = [posts |-> Count(tally.posts), submits |-> Count(tally.submits)]
         /\ lastRun' = Effects("submit", "", "", TRUE, "", NoFile)
         /\ UNCHANGED <<textInput, wsdlFile, generatedXml, isLoading, disabled, objectUrls>>

\* handleSubmit without formData.append('user_input', textInput).
handleSubmitDropsText ==
    IF ~Truthy(wsdlFile)
    THEN /\ lastRun' = Effects("submit", "", MissingFileAlert, FALSE, "", NoFile)
         /\ UNCHANGED <<textInput, wsdlFile, generatedXml, isLoading, disabled,
                        inflight, objectUrls, tally>>
    ELSE /\ Len(inflight) < MaxInFlight
         /\ isLoading' = TRUE
         /\ inflight' = Append(inflight, [wsdl_file |-> wsdlFile, user_input |-> ""])
         /\ disabled' = ButtonDisabled(isLoading')
         /\ tally' = [posts |-> Count(tally.posts), submits |-> Count(tally.submits)]
         /\ lastRun' = Effects("submit", "", "", TRUE, "", NoFile)
         /\ UNCHANGED <<textInput, wsdlFile, generatedXml, objectUrls>>

\* handleSubmit, had it emptied the output pane when a submission starts.
handleSubmitClearsOutput ==
    IF ~Truthy(wsdlFile)
    THEN /\ lastRun' = Effects("submit", "", MissingFileAlert, FALSE, "", NoFile)
         /\ UNCHANGED <<textInput, wsdlFile, generatedXml, isLoading, disabled,
                        inflight, objectUrls, tally>>
    ELSE /\ Len(inflight) < MaxInFlight
         /\ isLoading' = TRUE
         /\ generatedXml' = InitialXml
         /\ inflight' = Append(inflight, [wsdl_file |-> wsdlFile, user_input |-> textInput])
         /\ disabled' = ButtonDisabled(isLoading')
         /\ tally' = [posts |-> Count(tally.posts), submits |-> Count(tally.submits)]
         /\ lastRun' = Effects("submit", "", "", TRUE, "", NoFile)
         /\ UNCHANGED <<textInput, wsdlFile, objectUrls>>

\* handleSubmit up to the await: the guard, setIsLoading(true), the FormData,
\* axios.post; then the render that follows the event.
handleSubmit ==
    IF ~Truthy(wsdlFile)
    THEN /\ lastRun' = Effects("submit", "", MissingFileAlert, FALSE, "", NoFile)
         /\ UNCHANGED <<textInput, wsdlFile, generatedXml, isLoading, disabled,
                        inflight, objectUrls, tally>>
    ELSE /\ Len(inflight) < MaxInFlight    \* the bound of the model
         /\ isLoading' = TRUE
         /\ inflight' = Append(inflight, [wsdl_file |-> wsdlFile, user_input |-> textInput])
         /\ disabled' = ButtonDisabled(isLoading')
         /\ tally' = [posts |-> Count(tally.posts), submits |-> Count(tally.submits)]
         /\ lastRun' = Effects("submit", "", "", TRUE, "", NoFile)
         /\ UNCHANGED <<textInput, wsdlFile, generatedXml, objectUrls>>

\* The success continuation, had it kept the old output for an empty body:
\* setGeneratedXml(response.data || generatedXml).
SettleSuccessKeepsOnEmpty(i, data) ==
    /\ i \in 1..Len(inflight)
    /\ generatedXml' = IF data = "" THEN generatedXml ELSE data
    /\ isLoading' = FALSE
    /\ inflight' = RemoveAt(inflight, i)
    /\ disabled' = ButtonDisabled(isLoading')
    /\ lastRun' = Effects("settleSuccess", data, "", FALSE, "", NoFile)
    /\ UNCHANGED <<textInput, wsdlFile, objectUrls, tally>>

\* The success continuation, had it reset the form for the next submission.
SettleSuccessResetsForm(i, data) ==
    /\ i \in 1..Len(inflight)
    /\ generatedXml' = data
    /\ textInput' = ""
    /\ wsdlFile' = Null
    /\ isLoading' = FALSE
    /\ inflight' = RemoveAt(inflight, i)
    /\ disabled' = ButtonDisabled(isLoading')
    /\ lastRun' = Effects("settleSuccess", data, "", FALSE, "", NoFile)
    /\ UNCHANGED <<objectUrls, tally>>

\* The continuation of the i-th suspended handleSubmit when its request is
\* fulfilled with response.data = data: setGeneratedXml(response.data), finally.
SettleSuccess(i, data) ==
    /\ i \in 1..Len(inflight)
    /\ generatedXml' = data
    /\ isLoading' = FALSE
    /\ inflight' = RemoveAt(inflight, i)
    /\ disabled' = ButtonDisabled(isLoading')
    /\ lastRun' = Effects("settleSuccess", data, "", FALSE, "", NoFile)
    /\ UNCHANGED <<textInput, wsdlFile, objectUrls, tally>>

\* The failure continuation, had it shown a status error's cause.
SettleFailureShowsCause(i, cause) ==
    /\ i \in 1..Len(inflight)
    /\ generatedXml' = IF cause = "Network Error" THEN ErrorXml ELSE cause
    /\ isLoading' = FALSE
    /\ inflight' = RemoveAt(inflight, i)
    /\ disabled' = ButtonDisabled(isLoading')
    /\ lastRun' = Effects("settleFailure", cause, "", FALSE, cause, NoFile)
    /\ UNCHANGED <<textInput, wsdlFile, objectUrls, tally>>

\* The failure continuation without the finally block: setIsLoading(false)
\* at the end of try only.
SettleFailureStillLoading(i, cause) ==
    /\ i \in 1..Len(inflight)
    /\ generatedXml' = ErrorXml
    /\ inflight' = RemoveAt(inflight, i)
    /\ lastRun' = Effects("settleFailure", cause, "", FALSE, cause, NoFile)
    /\ UNCHANGED <<textInput, wsdlFile, isLoading, disabled, objectUrls, tally>>

\* The failure continuation, had it posted the same FormData again.
SettleFailureRetries(i, cause) ==
    /\ i \in 1..Len(inflight)
    /\ generatedXml' = ErrorXml
    /\ tally' = [tally EXCEPT !.posts = Count(tally.posts)]
    /\ lastRun' = Effects("settleFailure", cause, "", TRUE, cause, NoFile)
    /\ UNCHANGED <<textInput, wsdlFile, isLoading, disabled, inflight, objectUrls>>

\* The continuation of the i-th suspended handleSubmit when its request is
\* rejected: the catch block, finally.
SettleFailure(i, cause) ==
    /\ i \in 1..Len(inflight)
    /\ generatedXml' = ErrorXml
    /\ isLoading' = FALSE
    /\ inflight' = RemoveAt(inflight, i)
    /\ disabled' = ButtonDisabled(isLoading')
    /\ lastRun' = Effects("settleFailure", cause, "", FALSE, cause, NoFile)
    /\ UNCHANGED <<textInput, wsdlFile, objectUrls, tally>>

\* handleDownload closing over the first render's generatedXml.
handleDownloadStale ==
    \E url \in Urls \ objectUrls, outcome \in ClickOutcomes :
        /\ objectUrls' = (objectUrls \cup {url}) \ {url}
        /\ lastRun' = Effects("download", "", "", FALSE, "",
                              [name |-> DownloadName, content |-> InitialXml,
                               type |-> XmlType, href |-> url,
                               outcome |-> outcome])
        /\ UNCHANGED <<textInput, wsdlFile, generatedXml, isLoading, disabled, inflight,
                       tally>>

\* handleDownload, had it returned before revokeObjectURL when the download
\* did not start.
handleDownloadLeaksWhenBlocked ==
    \E url \in Urls \ objectUrls, outcome \in ClickOutcomes :
        /\ objectUrls' = IF outcome = "blocked" THEN objectUrls \cup {url}
                         ELSE (objectUrls \cup {url}) \ {url}
        /\ lastRun' = Effects("download", "", "", FALSE, "",
                              [name |-> DownloadName, content |-> generatedXml,
                               type |-> XmlType, href |-> url,
                               outcome |-> outcome])
        /\ UNCHANGED <<textInput, wsdlFile, generatedXml, isLoading, disabled, inflight,
                       tally>>

\* handleDownload: Blob, createObjectURL, the anchor, click, revokeObjectURL.
handleDownload ==
    \E url \in Urls \ objectUrls, outcome \in ClickOutcomes :
        /\ objectUrls' = (objectUrls \cup {url}) \ {url}
        /\ lastRun' = Effects("download", "", "", FALSE, "",
                              [name |-> DownloadName, content |-> generatedXml,
                               type |-> XmlType, href |-> url,
                               outcome |-> outcome])
        /\ UNCHANGED <<textInput, wsdlFile, generatedXml, isLoading, disabled, inflight,
                       tally>>

\* ---------------------------------------------------------------- events

\* The user types in the textarea.
TypeText == \E value \in Texts : setTextInput(value)

\* The user picks a file, or cancels the dialog.
ChooseFile == \E file \in Files \cup {Undefined} : handleFileChange(file)

\* The user clicks the submit button: a disabled button fires no event.
ClickSubmit == ~disabled /\ handleSubmit

\* A submit event reaches the form without the button: form.requestSubmit(),
\* a dispatched event, a test harness calling the handler.
DispatchSubmit == handleSubmit

\* The user clicks the download button.
ClickDownload == handleDownload

\* A pending request is fulfilled with some body.
Fulfil == \E i \in 1..Len(inflight), data \in Bodies : SettleSuccess(i, data)

\* A pending request is rejected for some cause.
Reject == \E i \in 1..Len(inflight), cause \in Causes : SettleFailure(i, cause)

\* The component driven through its rendered controls only.
NextUI ==
    \/ TypeText
    \/ ChooseFile
    \/ ClickSubmit
    \/ ClickDownload
    \/ Fulfil
    \/ Reject

SpecUI == Init /\ [][NextUI]_vars

\* The component with handleSubmit callable whatever the button shows.
Next ==
    \/ TypeText
    \/ ChooseFile
    \/ ClickSubmit
    \/ DispatchSubmit
    \/ ClickDownload
    \/ Fulfil
    \/ Reject

Spec == Init /\ [][Next]_vars

\* Every request settles: the event loop then runs the continuation.
Settle == Fulfil \/ Reject

LiveSpec == Spec /\ WF_vars(Settle)

\* ---------------------------------------------------------------- claims

\* The state the handlers own, apart from the record of the last run.
appState == <<textInput, wsdlFile, generatedXml, isLoading, disabled, inflight, objectUrls>>

\* C1: with submit events delivered through the button only, at most one
\* generation request is in flight in every reachable state.
C1_AtMostOneInFlight == Len(inflight) <= 1

\* C1 witness: a request is in flight, the button is rendered disabled, and
\* another handler has run meanwhile.
C1_Witness ==
    /\ Len(inflight) = 1
    /\ disabled
    /\ lastRun.op \in {"setText", "setFile", "download"}

\* C2: a submit() made while a request is still pending issues no POST.
C2_SecondSubmitIssuesNoPost ==
    [][(inflight # <<>> /\ lastRun'.op = "submit")
          => (~lastRun'.posted /\ inflight' = inflight)]_vars

\* C3: pending is true exactly when a request has been started and has not
\* settled.
C3_PendingIffInFlight == isLoading <=> (inflight # <<>>)

\* C4: submit() with no file selected, from any state, issues no request and
\* changes nothing; it only shows the notice.
C4_NoFileSubmitChangesNothing ==
    [][(~Truthy(wsdlFile) /\ lastRun'.op = "submit")
          => /\ UNCHANGED appState
             /\ ~lastRun'.posted
             /\ lastRun'.alert = MissingFileAlert]_vars

\* C4 witness: the notice was shown by a submit() made with the file undefined
\* while a request was pending.
C4_Witness ==
    /\ lastRun.op = "submit"
    /\ lastRun.alert = MissingFileAlert
    /\ wsdlFile = Undefined
    /\ isLoading
    /\ inflight # <<>>

\* C5: a submit() with a file leaves pending true with its request issued and
\* not yet settled, and the settling of a request, fulfilled or rejected,
\* leaves pending false.
C5_PendingAroundRequest ==
    [][/\ (Truthy(wsdlFile) /\ lastRun'.op = "submit")
            => (isLoading' /\ lastRun'.posted /\ Len(inflight') = Len(inflight) + 1)
       /\ (lastRun'.op \in {"settleSuccess", "settleFailure"})
            => (~isLoading' /\ Len(inflight') = Len(inflight) - 1)]_vars

\* C5 witness: a submission has gone through Pending and its request was
\* rejected.
C5_Witness ==
    /\ lastRun.op = "settleFailure"
    /\ ~isLoading
    /\ inflight = <<>>
    /\ Truthy(wsdlFile)

\* C6: whatever the cause of a failure, the output becomes the one fixed error
\* placeholder and pending is false; nothing else changes.
C6_UniformFailure ==
    [][(lastRun'.op = "settleFailure")
          => /\ generatedXml' = ErrorXml
             /\ isLoading' = FALSE
             /\ UNCHANGED <<textInput, wsdlFile, objectUrls>>]_vars

\* C6 witness: a request failed with a status outside 2xx.
C6_Witness ==
    /\ lastRun.op = "settleFailure"
    /\ lastRun.log = "status 500"
    /\ generatedXml = ErrorXml

\* C7: after a success the output is exactly the body received.
C7_OutputIsBody ==
    [][(lastRun'.op = "settleSuccess") => generatedXml' = lastRun'.input]_vars

\* C7 witness: an empty body has replaced the output.
C7_Witness ==
    /\ lastRun.op = "settleSuccess"
    /\ lastRun.input = ""
    /\ generatedXml = ""

\* C8: every Pending is followed by Idle with the submit button usable again.
C8_PendingLeadsToIdle == isLoading ~> (~isLoading /\ ENABLED ClickSubmit)

\* C8 witness: the controller is idle again after a request timed out.
C8_Witness ==
    /\ lastRun.op = "settleFailure"
    /\ lastRun.log = "timeout"
    /\ ~isLoading
    /\ ~disabled

\* C9: setText and setFile issue no request and change only their own field.
C9_SettersFrame ==
    [][/\ (lastRun'.op = "setText")
            => /\ textInput' = lastRun'.input
               /\ ~lastRun'.posted
               /\ UNCHANGED <<wsdlFile, generatedXml, isLoading, disabled, inflight,
                              objectUrls>>
       /\ (lastRun'.op = "setFile")
            => /\ wsdlFile' = lastRun'.input
               /\ ~lastRun'.posted
               /\ UNCHANGED <<textInput, generatedXml, isLoading, disabled, inflight,
                              objectUrls>>]_vars

\* C9 witness: a file was chosen while a request was pending and the output
\* already held a result.
C9_Witness ==
    /\ lastRun.op = "setFile"
    /\ isLoading
    /\ inflight # <<>>
    /\ generatedXml \in Bodies

\* C10: download() saves soapui-project.xml holding the output as it is at
\* the call, issues no request and changes no state.
C10_DownloadSavesOutput ==
    [][(lastRun'.op = "download")
          => /\ lastRun'.saved.name = DownloadName
             /\ lastRun'.saved.content = generatedXml
             /\ ~lastRun'.posted
             /\ UNCHANGED <<textInput, wsdlFile, generatedXml, isLoading, disabled,
                            inflight>>]_vars

\* C10 witness: the error placeholder was downloaded while a request was
\* pending.
C10_Witness ==
    /\ lastRun.op = "download"
    /\ lastRun.saved.content = ErrorXml
    /\ isLoading
    /\ inflight # <<>>


\* C11: once download() has finished, no object URL it created is live,
\* whether the browser saved the file or blocked the download, after any
\* number of downloads.
C11_UrlsReleased == objectUrls = {}

\* C11 witness: a download whose save-as was blocked has finished and its
\* URL is released.
C11_Witness ==
    /\ lastRun.op = "download"
    /\ lastRun.saved.outcome = "blocked"
    /\ lastRun.saved.href \in Urls
    /\ lastRun.saved.href \notin objectUrls

\* C12: a submit() with a file issues exactly one request, nothing but a
\* submit() issues one, a failure issues none, and the requests issued never
\* outnumber the submits made with a file.
C12_OneRequestPerSubmit ==
    [][/\ (Truthy(wsdlFile) /\ lastRun'.op = "submit")
            => (lastRun'.posted /\ Len(inflight') = Len(inflight) + 1)
       /\ (Len(inflight') > Len(inflight) \/ tally'.posts > tally.posts)
            => (lastRun'.op = "submit" /\ Truthy(wsdlFile))
       /\ (lastRun'.op = "settleFailure")
            => (~lastRun'.posted /\ tally'.posts = tally.posts
                /\ Len(inflight') = Len(inflight) - 1)
       /\ tally'.posts <= tally'.submits]_vars

\* C12 witness: two submits with a file, two requests, the last one failed
\* and nothing is in flight.
C12_Witness ==
    /\ lastRun.op = "settleFailure"
    /\ tally = [posts |-> 2, submits |-> 2]
    /\ inflight = <<>>

\* C13: every request issued carries a File, and the file and text that were
\* current when its submit() ran; picking a file or typing while it is pending
\* leaves the requests in flight as they are.
C13_RequestCarriesSubmitTimeInput ==
    [][/\ (Truthy(wsdlFile) /\ lastRun'.op = "submit")
            => inflight' = Append(inflight, [wsdl_file |-> wsdlFile,
                                             user_input |-> textInput])
       /\ (lastRun'.op \in {"setText", "setFile"}) => inflight' = inflight
       /\ \A i \in 1..Len(inflight') : inflight'[i].wsdl_file \in Files]_vars

\* C13 witness: a request is pending and both the file and the text have been
\* changed since its submit().
C13_Witness ==
    /\ Len(inflight) = 1
    /\ isLoading
    /\ Truthy(wsdlFile)
    /\ inflight[1].wsdl_file # wsdlFile
    /\ inflight[1].user_input # textInput

\* C14: a settlement updates output and pending only when no other
\* submission is in flight.
C14_NoInterleavedSettlement ==
    [][(lastRun'.op \in {"settleSuccess", "settleFailure"}) => inflight' = <<>>]_vars

\* C15: output changes only when a request settles, to the body received or
\* to the error placeholder; it stays as it is while pending stays true; it is
\* always the initial placeholder, the error placeholder or a response body.
C15_OutputChangesOnSettleOnly ==
    [][/\ (generatedXml' # generatedXml)
            => \/ lastRun'.op = "settleSuccess" /\ generatedXml' = lastRun'.input
               \/ lastRun'.op = "settleFailure" /\ generatedXml' = ErrorXml
       /\ (lastRun'.op = "submit") => generatedXml' = generatedXml
       /\ (isLoading /\ isLoading') => generatedXml' = generatedXml
       /\ generatedXml' \in Bodies \cup {InitialXml, ErrorXml}]_vars

\* C15 witness: a submission is pending and the output still shows the
\* result of an earlier one.
C15_Witness ==
    /\ lastRun.op = "submit"
    /\ lastRun.posted
    /\ isLoading
    /\ generatedXml \in Bodies

\* C16: no part of submit(), the synchronous run or either continuation,
\* changes text or file.
C16_SubmitKeepsInputs ==
    [][(lastRun'.op \in {"submit", "settleSuccess", "settleFailure"})
          => UNCHANGED <<textInput, wsdlFile>>]_vars

\* C16 witness: a submission has failed, the file and a text are still
\* selected and the button is enabled for a retry.
C16_Witness ==
    /\ lastRun.op = "settleFailure"
    /\ wsdlFile \in Files
    /\ textInput # ""
    /\ ~disabled
    /\ inflight = <<>>

TypeOK ==
    /\ textInput \in Texts
    /\ wsdlFile \in Files \cup {Null, Undefined}
    /\ generatedXml \in Bodies \cup {InitialXml, ErrorXml}
    /\ isLoading \in BOOLEAN
    /\ disabled \in BOOLEAN
    /\ Len(inflight) <= MaxInFlight
    /\ objectUrls \subseteq Urls
    /\ tally \in [posts : 0..MaxCount, submits : 0..MaxCount]

====
